---- MODULE Spec2Model ----
(***************************************************************************)
(* Model of airflow_operators_metrics/metrics.py: the command-line         *)
(* heuristic get_airflow_data, the scanner _get_processes_metrics, the     *)
(* name derivation _get_process_name and the MetricsContainer collect      *)
(* cycle (_reset, then one _handle_process_metrics per yielded record).    *)
(*                                                                         *)
(* Python strings are sequences of one-character strings, so that split,   *)
(* slicing, substring tests and joins are computed rather than assumed.    *)
(***************************************************************************)
EXTENDS Naturals, Sequences, FiniteSets, TLC

VARIABLES
    procs,          \* the host process table: pid -> [st, cmd, load]
    gauges,         \* gauge name -> its _metrics dict (label mapping -> value)
    global_labels,  \* MetricsContainer._global_labels (set at construction)
    thr,            \* per caller thread: the position and locals of collect()
    prevGauges,     \* history: gauges as they were when the running cycle began
    prevYield,      \* history: the records the previous cycle yielded
    prevValid,      \* history: a cycle has completed before the running one
    changedCur,     \* history: the process table changed since the cycle began
    changedPrev,    \* history: it changed during or after the previous cycle
    scraped,        \* the incomplete views scrapes found since the cycle began
    collect_time,   \* COLLECT_TIME: the number of observations of the summary
    fin,            \* input of the function under test (function specifications)
    fout            \* its result

vars == <<procs, gauges, global_labels, thr, prevGauges, prevYield, prevValid,
          changedCur, changedPrev, scraped, collect_time, fin, fout>>

progVars == <<procs, gauges, global_labels, thr, prevGauges, prevYield,
              prevValid, changedCur, changedPrev, scraped, collect_time>>

-----------------------------------------------------------------------------
(* Bounds of the model.                                                    *)

MaxPid == 2

MaxLoad == 1

\* the calls of collect() a behaviour makes
MaxCalls == 3

-----------------------------------------------------------------------------
(* Python str operations on character sequences.                           *)

Min(a, b) == IF a <= b THEN a ELSE b

\* str.startswith(prefix)
StartsWith(s, prefix) ==
    /\ Len(prefix) <= Len(s)
    /\ SubSeq(s, 1, Len(prefix)) = prefix

\* `sub in s` for two strings
Contains(s, sub) ==
    \E i \in 1..(Len(s) + 1) :
        /\ i + Len(sub) - 1 <= Len(s)
        /\ SubSeq(s, i, i + Len(sub) - 1) = sub

\* the characters str.split() treats as separators
Whitespace == {" ", "\t", "\n"}

\* the end of the run of non-whitespace that starts at i: the first
\* position after i that holds whitespace or lies past the string
WordEnd(s, i) ==
    CHOOSE j \in (i + 1)..(Len(s) + 1) :
        /\ j = Len(s) + 1 \/ s[j] \in Whitespace
        /\ \A k \in i..(j - 1) : s[k] \notin Whitespace

\* str.split() with no argument: the maximal runs of non-whitespace
RECURSIVE SplitFrom(_, _)
SplitFrom(s, i) ==
    IF i > Len(s) THEN <<>>
    ELSE IF s[i] \in Whitespace THEN SplitFrom(s, i + 1)
    ELSE <<SubSeq(s, i, WordEnd(s, i) - 1)>> \o SplitFrom(s, WordEnd(s, i))

Split(s) == SplitFrom(s, 1)

\* s[a:b] for 0 <= a <= b (Python clamps the slice to the string)
Slice(s, a, b) == SubSeq(s, a + 1, Min(b, Len(s)))

\* sep.join(parts)
RECURSIVE Join(_, _)
Join(sep, parts) ==
    IF parts = <<>> THEN <<>>
    ELSE IF Len(parts) = 1 THEN parts[1]
    ELSE parts[1] \o sep \o Join(sep, Tail(parts))

\* any([i == flag for i in args])
AnyEquals(args, flag) == \E i \in 1..Len(args) : args[i] = flag

-----------------------------------------------------------------------------
(* String literals of the source.                                          *)

PythonPrefix == <<"/","u","s","r","/","b","i","n","/","p","y","t","h","o","n">>

RunMarker == <<"a","i","r","f","l","o","w"," ","r","u","n">>

LocalFlag == <<"-","-","l","o","c","a","l">>

RawFlag == <<"-","-","r","a","w">>

LocalPart == <<"l","o","c","a","l">>

RawPart == <<"i","s","_","r","a","w">>

Underscore == <<"_">>

Dot == <<".">>

Space == <<" ">>

-----------------------------------------------------------------------------
(* get_airflow_data: the worker heuristic and the identity extraction.     *)
(* The result is [kind |-> "none"] for a return of None, [kind |->         *)
(* "raise"] for the IndexError of a subscript past the end of              *)
(* airflow_args, and [kind |-> "data", ...] for the returned dict.         *)

NoData == [kind |-> "none"]

IndexError == [kind |-> "raise"]

\* airflow_args[i] exists (Python indexes from 0)
HasIndex(args, i) == i + 1 <= Len(args)

\* airflow_args[i]
At(args, i) == args[i + 1]

DagIndex == 3

OperatorIndex == 4

ExecDateIndex == 5

ExecDateFrom == 5

ExecDateToShort == 25 - 1

ExecDateTo == 25

\* the body of the loop for a cmd_arg that contains the marker
ParseRunAltIndex(cmd_arg) ==
    LET airflow_args == Split(cmd_arg)
    IN  IF ~HasIndex(airflow_args, 2) THEN IndexError
        ELSE IF ~HasIndex(airflow_args, 3) THEN IndexError
        ELSE IF ~HasIndex(airflow_args, 4) THEN IndexError
        ELSE [kind      |-> "data",
              dag       |-> At(airflow_args, 2),
              operator  |-> At(airflow_args, 3),
              exec_date |-> Slice(At(airflow_args, 4), ExecDateFrom, ExecDateTo),
              is_local  |-> AnyEquals(airflow_args, LocalFlag),
              is_raw    |-> AnyEquals(airflow_args, RawFlag)]

ParseRun(cmd_arg) ==
    LET airflow_args == Split(cmd_arg)
    IN  IF ~HasIndex(airflow_args, DagIndex) THEN IndexError
        ELSE IF ~HasIndex(airflow_args, OperatorIndex) THEN IndexError
        ELSE IF ~HasIndex(airflow_args, ExecDateIndex) THEN IndexError
        ELSE [kind      |-> "data",
              dag       |-> At(airflow_args, DagIndex),
              operator  |-> At(airflow_args, OperatorIndex),
              exec_date |-> Slice(At(airflow_args, ExecDateIndex),
                                  ExecDateFrom, ExecDateTo),
              is_local  |-> AnyEquals(airflow_args, LocalFlag),
              is_raw    |-> AnyEquals(airflow_args, RawFlag)]

\* the tests of line 182
LooksLikeWorkerNoPrefix(cmdline) == cmdline # <<>>

LooksLikeWorker(cmdline) ==
    /\ cmdline # <<>>
    /\ StartsWith(cmdline[1], PythonPrefix)

\* the positions of the tokens that contain the marker
MarkerPositions(cmdline) ==
    {i \in 1..Len(cmdline) : Contains(cmdline[i], RunMarker)}

LastOf(S) == CHOOSE i \in S : \A j \in S : i >= j

FirstOf(S) == CHOOSE i \in S : \A j \in S : i <= j

get_airflow_data(cmdline) ==
    IF ~LooksLikeWorker(cmdline) THEN NoData
    ELSE IF MarkerPositions(cmdline) = {} THEN NoData
    ELSE ParseRun(cmdline[FirstOf(MarkerPositions(cmdline))])

-----------------------------------------------------------------------------
(* _get_process_name: the display name of a record.                        *)

NameBaseSwapped(dag, operator) ==
    IF Contains(operator, dag) THEN dag \o Dot \o operator ELSE operator

NameBase(dag, operator) ==
    IF ~Contains(operator, dag) THEN dag \o Dot \o operator ELSE operator

get_process_name(metrics) ==
    LET p1 == <<NameBase(metrics.dag, metrics.operator), metrics.exec_date>>
        p2 == IF metrics.is_local THEN Append(p1, LocalPart) ELSE p1
        p3 == IF metrics.is_raw THEN Append(p2, RawPart) ELSE p2
    IN  Join(Underscore, p3)

-----------------------------------------------------------------------------
(* Words used to build command lines and records.                          *)

Python3 == PythonPrefix \o <<"3">>

AirflowBin == <<"/","u","s","r","/","b","i","n","/","a","i","r","f","l","o","w">>

Airflow == <<"a","i","r","f","l","o","w">>

Run == <<"r","u","n">>

Sh == <<"/","b","i","n","/","s","h">>

Script == <<"x",".","p","y">>

D1 == <<"d","1">>

D1T == <<"d","1","_","t">>

D2 == <<"d","2">>

T2 == <<"t","2">>

MyDag == <<"m","y","_","d","a","g">>

MyTask == <<"m","y","_","t","a","s","k">>

\* an execution date as airflow prints it: 25 characters
Date25 == <<"2","0","2","3","-","0","3","-","0","3","T","0","0",":","0","0",":",
            "0","0","+","0","0",":","0","0">>

\* with microseconds: 32 characters
Date32 == <<"2","0","2","3","-","0","3","-","0","3","T","0","0",":","0","0",":",
            "0","0",".","1","2","3","4","5","6","+","0","0",":","0","0">>

\* without a zone: 19 characters
Date19 == <<"2","0","2","3","-","0","3","-","0","3","T","0","0",":","0","0",":",
            "0","0">>

\* a bare year: 4 characters
Date4 == <<"2","0","2","3">>

-----------------------------------------------------------------------------
(* The host: processes, their command lines and their counters.            *)

Pids == 1..MaxPid

\* the command lines a process of the model can have
ProcCmdlines == <<
    \* a worker whose title is its whole invocation (dag is part of operator)
    <<Join(Space, <<Python3, AirflowBin, Run, D1, D1T, Date25, LocalFlag>>)>>,
    \* a second worker, raw, dag not part of operator
    <<Join(Space, <<Python3, AirflowBin, Run, D2, T2, Date25, RawFlag>>)>>,
    \* a shell whose second token is the whole invocation of a worker
    <<Sh, Join(Space, <<Python3, AirflowBin, Run, D1, D1T, Date25, LocalFlag>>)>>,
    \* a python process that is no worker
    <<Python3, Script>>,
    \* a marker token with too few sub-tokens
    <<Python3, RunMarker>>,
    \* a process without a command line (a kernel thread, a zombie)
    <<>> >>

CmdIds == 1..Len(ProcCmdlines)

\* the first worker again, with the other combinations of the two flags
FlagCmdlines == <<
    <<Join(Space, <<Python3, AirflowBin, Run, D1, D1T, Date25>>)>>,
    <<Join(Space, <<Python3, AirflowBin, Run, D1, D1T, Date25, RawFlag>>)>>,
    <<Join(Space, <<Python3, AirflowBin, Run, D1, D1T, Date25, LocalFlag,
                    RawFlag>>)>> >>

AllCmdlines == ProcCmdlines \o FlagCmdlines

\* the workers that differ in their flags alone, a worker of another task
\* and a process that is no worker
FlagCmdIds ==
    {1, 2, 4} \cup {Len(ProcCmdlines) + i : i \in 1..Len(FlagCmdlines)}

Unborn == [st |-> "unborn", cmd |-> 0, load |-> 0]

Alive(p) == procs[p].st = "alive"

\* process.cmdline() of a live process
Cmdline(p) == AllCmdlines[procs[p].cmd]

\* get_airflow_data on each command line of the model
AirflowDataOf ==
    [c \in DOMAIN AllCmdlines |-> get_airflow_data(AllCmdlines[c])]

\* get_airflow_data(process) for a live process
airflow_data(p) == AirflowDataOf[procs[p].cmd]

\* the counters of a process are a function of its load: every field of
\* every load has a value of its own
FieldNo ==
    [mem_rss |-> 1, mem_vms |-> 2, mem_shared |-> 3, mem_text |-> 4,
     mem_data |-> 5, mem_lib |-> 6, mem_uss |-> 7, mem_pss |-> 8,
     mem_swap |-> 9, cpu_percent |-> 10, cpu_times_user |-> 11,
     cpu_times_system |-> 12]

Counter(p, field) == 16 * (MaxPid * procs[p].load + p) + FieldNo[field]

\* process.memory_full_info()
memory_full_info(p) ==
    [rss |-> Counter(p, "mem_rss"), vms |-> Counter(p, "mem_vms"),
     shared |-> Counter(p, "mem_shared"), text |-> Counter(p, "mem_text"),
     data |-> Counter(p, "mem_data"), lib |-> Counter(p, "mem_lib"),
     uss |-> Counter(p, "mem_uss"), pss |-> Counter(p, "mem_pss"),
     swap |-> Counter(p, "mem_swap")]

\* process.cpu_times()
cpu_times(p) ==
    [user |-> Counter(p, "cpu_times_user"),
     system |-> Counter(p, "cpu_times_system")]

\* process.cpu_percent()
cpu_percent(p) == Counter(p, "cpu_percent")

\* psutil.process_iter(): the live pids, in ascending order
RECURSIVE SortedPids(_)
SortedPids(S) ==
    IF S = {} THEN <<>>
    ELSE LET m == CHOOSE x \in S : \A y \in S : x <= y
         IN  <<m>> \o SortedPids(S \ {m})

process_iter == SortedPids({p \in Pids : Alive(p)})

\* the live processes get_airflow_data returns a dict for
Matched ==
    {p \in Pids : /\ Alive(p)
                  /\ airflow_data(p).kind = "data"}

-----------------------------------------------------------------------------
(* MetricsContainer: the gauges and the label mapping.                     *)

\* the gauges __init__ creates
GaugeNames ==
    {"mem_rss", "mem_vms", "mem_shared", "mem_text", "mem_lib", "mem_uss",
     "mem_swap", "mem_pss", "cpu_percent", "cpu_times_user",
     "cpu_times_system"}

\* a gauge without series
NoSeries == [l \in {} |-> 0]

\* the extra labels a container can be constructed with
NoLabels == [k \in {} |-> <<>>]

EnvLabels == [env |-> <<"p","r","o","d">>]

GlobalLabelChoices == {NoLabels, EnvLabels}

\* the labelnames every gauge is created with
LabelNames == {"name", "dag", "operator", "exec_date"} \cup DOMAIN global_labels

\* the gauges _reset clears, in order
ResetOrderForgetful ==
    <<"mem_rss", "mem_vms", "mem_shared", "mem_text", "mem_uss", "mem_swap",
      "mem_swap", "cpu_percent", "cpu_times_user", "cpu_times_system">>

ResetOrder ==
    <<"mem_rss", "mem_vms", "mem_shared", "mem_text", "mem_uss", "mem_swap",
      "mem_pss", "cpu_percent", "cpu_times_user", "cpu_times_system">>

\* gauge._metrics = {}
ResetGaugePopOne(series) ==
    IF DOMAIN series = {} THEN series
    ELSE LET gone == CHOOSE l \in DOMAIN series : TRUE
         IN  [l \in DOMAIN series \ {gone} |-> series[l]]

ResetGauge(series) == NoSeries

\* the gauges _handle_process_metrics sets, in order (the field of the
\* record has the name of the gauge)
HandleOrderShort ==
    <<"mem_rss", "mem_vms", "mem_shared", "mem_text", "mem_uss", "mem_swap",
      "cpu_percent", "cpu_times_user", "cpu_times_system">>

HandleOrder ==
    <<"mem_rss", "mem_vms", "mem_shared", "mem_text", "mem_uss", "mem_swap",
      "mem_pss", "cpu_percent", "cpu_times_user", "cpu_times_system">>

\* the label mapping of a record
LabelsOfBare(metrics) ==
    [name      |-> get_process_name(metrics),
     dag       |-> metrics.dag,
     operator  |-> metrics.operator,
     exec_date |-> metrics.exec_date]

LabelsOf(metrics) ==
    LET labels == [name      |-> get_process_name(metrics),
                   dag       |-> metrics.dag,
                   operator  |-> metrics.operator,
                   exec_date |-> metrics.exec_date]
    IN  IF DOMAIN global_labels # {} THEN global_labels @@ labels ELSE labels

\* gauge.labels(**labels).set(value)
GaugeSetKeepFirst(series, labels, value) ==
    [l \in DOMAIN series \cup {labels} |->
        IF l \in DOMAIN series THEN series[l] ELSE value]

GaugeSet(series, labels, value) ==
    [l \in DOMAIN series \cup {labels} |->
        IF l = labels THEN value ELSE series[l]]

\* the ProcessMetrics the scanner yields
ProcessMetrics(data, mem, cput, cpup) ==
    [dag |-> data.dag, operator |-> data.operator,
     exec_date |-> data.exec_date, is_local |-> data.is_local,
     is_raw |-> data.is_raw,
     mem_rss |-> mem.rss, mem_vms |-> mem.vms, mem_shared |-> mem.shared,
     mem_text |-> mem.text, mem_data |-> mem.data, mem_lib |-> mem.lib,
     mem_uss |-> mem.uss, mem_pss |-> mem.pss, mem_swap |-> mem.swap,
     cpu_percent |-> cpup, cpu_times_user |-> cput.user,
     cpu_times_system |-> cput.system]

-----------------------------------------------------------------------------
(* The callers of collect().  Each has a position in collect() and the     *)
(* locals of collect() and of the generator _get_processes_metrics.        *)

Threads == {1, 2}

Idle ==
    [pc       |-> "idle",   \* where the thread is in collect()
     timer    |-> "none",   \* the Timer of COLLECT_TIME.time() for the call
     calls    |-> 0,        \* history: the calls of collect() by the thread
     ri       |-> 0,        \* the next statement of _reset
     wi       |-> 0,        \* the next statement of _handle_process_metrics
     handled  |-> 0,        \* collect's counter
     snap     |-> <<>>,     \* the processes process_iter listed
     pos      |-> 0,        \* how many of them the loop has taken
     proc     |-> 0,        \* the process of the running iteration
     data     |-> NoData,   \* airflow_data
     mem      |-> NoData,   \* mem
     cput     |-> NoData,   \* cpu_times
     rec      |-> NoData,   \* the record being handled
     labels   |-> NoData,   \* its label mapping
     matched  |-> {},       \* history: the listed processes that are workers
     yielded  |-> <<>>,     \* history: the records yielded, with their pid
     vanished |-> {}]       \* history: listed processes that exited unfetched

Returned(T) == T.pc \in {"idle", "done", "raised"}

Fetching(T) == T.pc \in {"cmdline", "mem", "cpu_times", "cpu_percent"}

\* the listed processes whose fetches are still to come or under way
Unfetched(T) ==
    {T.snap[i] : i \in (T.pos + 1)..Len(T.snap)}
        \cup (IF Fetching(T) THEN {T.proc} ELSE {})

\* the for loop of _get_processes_metrics takes the next process, or the
\* generator is exhausted and collect() logs and returns
Advance(T) ==
    IF T.pos < Len(T.snap)
    THEN [T EXCEPT !.pc = "cmdline", !.pos = T.pos + 1,
                   !.proc = T.snap[T.pos + 1],
                   !.data = NoData, !.mem = NoData, !.cput = NoData,
                   !.rec = NoData,
                   !.labels = NoData, !.wi = 0]
    ELSE [T EXCEPT !.pc = "done", !.timer = "observed", !.proc = 0,
                   !.data = NoData, !.mem = NoData, !.cput = NoData,
                   !.rec = NoData,
                   !.labels = NoData, !.wi = 0]

\* an exception that leaves collect()
Raise(T) ==
    [T EXCEPT !.pc = "raised", !.timer = "observed", !.proc = 0,
              !.data = NoData, !.mem = NoData,
              !.cput = NoData, !.rec = NoData,
                   !.labels = NoData, !.wi = 0]

hostVars == <<procs, global_labels>>

\* the calls of collect() made so far
RECURSIVE CallsOf(_)
CallsOf(S) ==
    IF S = {} THEN 0
    ELSE LET t == CHOOSE x \in S : TRUE
         IN  thr[t].calls + CallsOf(S \ {t})

\* Timer.__exit__ of the COLLECT_TIME.time() decorator: one observation,
\* on a return and on an exception alike
ObserveIfHandled(summary, T) ==
    IF T.handled > 0 THEN summary + 1 ELSE summary

Observe(summary, T) == summary + 1

\* the decorator around a step of collect(): the step that leaves collect()
\* leaves the with block of the timer
TimerExit(t) ==
    collect_time' = IF thr'[t].pc \in {"done", "raised"}
                    THEN Observe(collect_time, thr'[t])
                    ELSE collect_time

histVars == <<prevGauges, prevYield, prevValid, changedCur, changedPrev>>

fnVars == <<fin, fout>>

\* collect() is called: the decorator starts a timer, then handled = 0
Call(t) ==
    /\ Returned(thr[t])
    /\ CallsOf(Threads) < MaxCalls
    /\ thr' = [thr EXCEPT ![t] = [Idle EXCEPT !.pc = "reset", !.ri = 1,
                                              !.timer = "running",
                                              !.calls = thr[t].calls + 1]]

\* the call of one of several callers, each of which calls once: the
\* histories of serialized cycles are not kept
collect_concurrently(t) ==
    /\ thr[t].pc = "idle"
    /\ Call(t)
    /\ UNCHANGED <<hostVars, gauges, histVars, scraped, collect_time, fnVars>>

\* a call by the one caller of serialized cycles
collect(t) ==
    /\ Call(t)
    /\ prevGauges' = gauges
    /\ prevYield' = thr[t].yielded
    /\ prevValid' = (thr[t].pc # "idle")
    /\ changedPrev' = changedCur
    /\ changedCur' = FALSE
    /\ scraped' = {}
    /\ UNCHANGED <<hostVars, gauges, collect_time, fnVars>>

\* statement i of _reset
ResetStatementAtOnce(G, i) ==
    [g \in DOMAIN G |->
        IF \E k \in 1..Len(ResetOrder) : ResetOrder[k] = g
        THEN ResetGauge(G[g]) ELSE G[g]]

ResetStatement(G, i) == [G EXCEPT ![ResetOrder[i]] = ResetGauge(@)]

\* the statements i.. of _reset, in order
RECURSIVE ResetFrom(_, _)
ResetFrom(G, i) ==
    IF i > Len(ResetOrder) THEN G
    ELSE ResetFrom(ResetStatement(G, i), i + 1)

\* one statement of _reset, for the callers that share the registry with
\* another thread
reset_statement(t) ==
    LET T == thr[t]
    IN  /\ T.pc = "reset"
        /\ gauges' = ResetStatement(gauges, T.ri)
        /\ thr' = [thr EXCEPT ![t] =
                     IF T.ri < Len(ResetOrder)
                     THEN [T EXCEPT !.ri = T.ri + 1]
                     ELSE [T EXCEPT !.pc = "iter", !.ri = 0]]
        /\ UNCHANGED <<hostVars, histVars, scraped, collect_time, fnVars>>

\* the whole of _reset, when nothing else touches the registry meanwhile
reset(t) ==
    LET T == thr[t]
    IN  /\ T.pc = "reset"
        /\ T.ri = 1
        /\ gauges' = ResetFrom(gauges, 1)
        /\ thr' = [thr EXCEPT ![t] = [T EXCEPT !.pc = "iter", !.ri = 0]]
        /\ UNCHANGED <<hostVars, histVars, scraped, collect_time, fnVars>>

\* the first next() of the generator: process_iter lists the processes
iter_start(t) ==
    LET T == thr[t]
    IN  /\ T.pc = "iter"
        /\ thr' = [thr EXCEPT ![t] =
                     Advance([T EXCEPT !.snap = process_iter,
                                       !.matched = Matched])]
        /\ TimerExit(t)
        /\ UNCHANGED <<hostVars, gauges, histVars, scraped, fnVars>>

\* airflow_data = get_airflow_data(process)
fetch_cmdline(t) ==
    LET T == thr[t]
        r == airflow_data(T.proc)
    IN  /\ T.pc = "cmdline"
        /\ thr' = [thr EXCEPT ![t] =
                     IF ~Alive(T.proc) THEN Advance(T)
                     ELSE IF r.kind = "none" THEN Advance(T)
                     ELSE IF r.kind = "raise" THEN Raise(T)
                     ELSE [T EXCEPT !.pc = "mem", !.data = r]]
        /\ TimerExit(t)
        /\ UNCHANGED <<hostVars, gauges, histVars, scraped, fnVars>>

\* mem = process.memory_full_info()
fetch_mem(t) ==
    LET T == thr[t]
    IN  /\ T.pc = "mem"
        /\ thr' = [thr EXCEPT ![t] =
                     IF ~Alive(T.proc) THEN Advance(T)
                     ELSE [T EXCEPT !.pc = "cpu_times",
                                    !.mem = memory_full_info(T.proc)]]
        /\ TimerExit(t)
        /\ UNCHANGED <<hostVars, gauges, histVars, scraped, fnVars>>

\* cpu_times = process.cpu_times()
fetch_cpu_times(t) ==
    LET T == thr[t]
    IN  /\ T.pc = "cpu_times"
        /\ thr' = [thr EXCEPT ![t] =
                     IF ~Alive(T.proc) THEN Advance(T)
                     ELSE [T EXCEPT !.pc = "cpu_percent",
                                    !.cput = cpu_times(T.proc)]]
        /\ TimerExit(t)
        /\ UNCHANGED <<hostVars, gauges, histVars, scraped, fnVars>>

\* cpu_percent = process.cpu_percent(), the yield of the record, and the
\* first lines of _handle_process_metrics, which build its label mapping
fetch_cpu_percent(t) ==
    LET T == thr[t]
        m == ProcessMetrics(T.data, T.mem, T.cput, cpu_percent(T.proc))
    IN  /\ T.pc = "cpu_percent"
        /\ thr' = [thr EXCEPT ![t] =
                     IF ~Alive(T.proc) THEN Advance(T)
                     ELSE [T EXCEPT !.pc = "handle", !.wi = 1, !.rec = m,
                                    !.labels = LabelsOf(m),
                                    !.data = NoData, !.mem = NoData,
                                    !.cput = NoData,
                                    !.yielded = Append(T.yielded,
                                        [pid |-> T.proc,
                                         cmd |-> procs[T.proc].cmd,
                                         metrics |-> m])]]
        /\ TimerExit(t)
        /\ UNCHANGED <<hostVars, gauges, histVars, scraped, fnVars>>

\* statement i of the writes of _handle_process_metrics
HandleStatementFirstField(G, labels, metrics, i) ==
    [G EXCEPT ![HandleOrder[i]] = GaugeSet(@, labels, metrics[HandleOrder[1]])]

HandleStatement(G, labels, metrics, i) ==
    [G EXCEPT ![HandleOrder[i]] = GaugeSet(@, labels, metrics[HandleOrder[i]])]

\* the writes i.. of _handle_process_metrics, in order
RECURSIVE HandleFrom(_, _, _, _)
HandleFrom(G, labels, metrics, i) ==
    IF i > Len(HandleOrder) THEN G
    ELSE HandleFrom(HandleStatement(G, labels, metrics, i), labels, metrics,
                    i + 1)

\* one write of _handle_process_metrics; after the last, handled += 1
handle_statement(t) ==
    LET T == thr[t]
    IN  /\ T.pc = "handle"
        /\ gauges' = HandleStatement(gauges, T.labels, T.rec, T.wi)
        /\ thr' = [thr EXCEPT ![t] =
                     IF T.wi < Len(HandleOrder)
                     THEN [T EXCEPT !.wi = T.wi + 1]
                     ELSE Advance([T EXCEPT !.handled = T.handled + 1])]
        /\ TimerExit(t)
        /\ UNCHANGED <<hostVars, histVars, scraped, fnVars>>

\* the whole of _handle_process_metrics, then handled += 1
handle_process_metrics(t) ==
    LET T == thr[t]
    IN  /\ T.pc = "handle"
        /\ T.wi = 1
        /\ gauges' = HandleFrom(gauges, T.labels, T.rec, 1)
        /\ thr' = [thr EXCEPT ![t] =
                     Advance([T EXCEPT !.handled = T.handled + 1])]
        /\ TimerExit(t)
        /\ UNCHANGED <<hostVars, histVars, scraped, fnVars>>

\* the scan, between the clearing and the writing
Scan(t) ==
    \/ iter_start(t)
    \/ fetch_cmdline(t)
    \/ fetch_mem(t)
    \/ fetch_cpu_times(t)
    \/ fetch_cpu_percent(t)

-----------------------------------------------------------------------------
(* The host changes under the collector.  A pid is used once.              *)

Spawn(p, c) ==
    /\ procs[p].st = "unborn"
    /\ procs' = [procs EXCEPT ![p] = [st |-> "alive", cmd |-> c, load |-> 0]]
    /\ changedCur' = TRUE
    /\ UNCHANGED <<gauges, global_labels, thr, prevGauges, prevYield,
                   prevValid, changedPrev, scraped, collect_time, fnVars>>

Exit(p) ==
    /\ Alive(p)
    /\ procs' = [procs EXCEPT ![p] = [st |-> "dead", cmd |-> 0, load |-> 0]]
    /\ thr' = [t \in Threads |->
                 IF p \in Unfetched(thr[t])
                 THEN [thr[t] EXCEPT !.vanished = @ \cup {p}]
                 ELSE thr[t]]
    /\ changedCur' = TRUE
    /\ UNCHANGED <<gauges, global_labels, prevGauges, prevYield, prevValid,
                   changedPrev, scraped, collect_time, fnVars>>

Tick(p) ==
    /\ Alive(p)
    /\ procs[p].load < MaxLoad
    /\ procs' = [procs EXCEPT ![p] = [@ EXCEPT !.load = @ + 1]]
    /\ changedCur' = TRUE
    /\ UNCHANGED <<gauges, global_labels, thr, prevGauges, prevYield,
                   prevValid, changedPrev, scraped, collect_time, fnVars>>

-----------------------------------------------------------------------------
(* A scrape reads the registry.  Nothing in collect() excludes it.         *)

\* the label mappings of the live processes a scan would match
LiveLabels ==
    {LabelsOf(airflow_data(p)) :
        p \in {q \in Pids : /\ Alive(q)
                            /\ airflow_data(q).kind = "data"}}

Series(g) == DOMAIN gauges[g]

Written == {HandleOrder[i] : i \in 1..Len(HandleOrder)}

\* what a reader of the gauges collect() writes sees
View ==
    LET first == Series(HandleOrder[1])
        live == LiveLabels
    IN  IF \E g \in Written : Series(g) # first THEN "mixed"
        ELSE IF first = live THEN "complete"
        ELSE IF first = {} THEN "empty"
        ELSE IF first \subseteq live THEN "partial"
        ELSE "other"

\* a scrape; the reader keeps, for the cycle, the views that are not the
\* complete one
Scrape ==
    /\ scraped' = scraped \cup ({View} \ {"complete"})
    /\ scraped' # scraped
    /\ UNCHANGED <<hostVars, gauges, thr, histVars, collect_time, fnVars>>

-----------------------------------------------------------------------------
(* The specification of serialized cycles: one caller, one cycle at a time.*)

NoCall == [fn |-> "none"]

Init ==
    /\ procs = [p \in Pids |-> Unborn]
    /\ gauges = [g \in GaugeNames |-> NoSeries]
    /\ global_labels \in GlobalLabelChoices
    /\ thr = [t \in Threads |-> Idle]
    /\ prevGauges = [g \in GaugeNames |-> NoSeries]
    /\ prevYield = <<>>
    /\ prevValid = FALSE
    /\ changedCur = FALSE
    /\ changedPrev = FALSE
    /\ scraped = {}
    /\ collect_time = 0
    /\ fin = NoCall
    /\ fout = NoCall

Next ==
    \/ collect(1)
    \/ reset(1)
    \/ Scan(1)
    \/ handle_process_metrics(1)
    \/ \E p \in Pids, c \in CmdIds : Spawn(p, c)
    \/ \E p \in Pids : Exit(p)
    \/ \E p \in Pids : Tick(p)

Spec == Init /\ [][Next]_vars

-----------------------------------------------------------------------------
(* Properties of serialized cycles.                                        *)

T1 == thr[1]

\* collect() has returned, or left by an exception
Finished == T1.pc \in {"done", "raised"}

Range(seq) == {seq[i] : i \in 1..Len(seq)}

YieldedPids(yielded) == {yielded[i].pid : i \in 1..Len(yielded)}

YieldedLabels(yielded) ==
    {LabelsOf(yielded[i].metrics) : i \in 1..Len(yielded)}

\* C1: stale-series elimination.  When a cycle is over, a process that
\* yielded a record in the cycle before and none in this one (it was gone
\* when the processes were listed, or went before its fetches) has its label
\* mapping in no gauge, unless a record of this cycle has the same mapping.
C1_StaleSeriesEliminated ==
    Finished =>
        \A i \in 1..Len(prevYield) :
            LET stale == LabelsOf(prevYield[i].metrics)
            IN  prevYield[i].pid \notin YieldedPids(T1.yielded) =>
                    \/ stale \in YieldedLabels(T1.yielded)
                    \/ \A g \in GaugeNames : stale \notin DOMAIN gauges[g]

\* a cycle ended after a worker of the cycle before had exited, and the
\* series that worker had at the start of the cycle is gone
C1_Witness ==
    /\ T1.pc = "done"
    /\ \E i \in 1..Len(prevYield) :
        LET stale == LabelsOf(prevYield[i].metrics)
        IN  /\ prevYield[i].pid \notin Range(T1.snap)
            /\ stale \in DOMAIN prevGauges["mem_rss"]
            /\ stale \notin YieldedLabels(T1.yielded)
            /\ \A g \in GaugeNames : stale \notin DOMAIN gauges[g]

\* C2: after collect() returns, each of the eleven gauges holds, under the
\* label mapping of every record of the cycle, the field of that record.
C2_EveryGaugeHoldsEveryRecord ==
    T1.pc = "done" =>
        \A i \in 1..Len(T1.yielded) : \A g \in GaugeNames :
            LET m == T1.yielded[i].metrics
            IN  /\ LabelsOf(m) \in DOMAIN gauges[g]
                /\ gauges[g][LabelsOf(m)] = m[g]

\* C4: a scan never raises, and when it is over the records are those of
\* the listed workers that did not exit before the end of their fetches.
C4_VanishTolerant ==
    /\ T1.pc # "raised"
    /\ T1.pc = "done" =>
        /\ YieldedPids(T1.yielded) = T1.matched \ T1.vanished
        /\ Len(T1.yielded) = Cardinality(T1.matched \ T1.vanished)

\* the part of C4 that is about exits alone: the records of a cycle, at
\* every point of it, are records of listed workers that had not exited
\* when their fetches ended, one each; a scan that reaches its end has
\* them all
VanishedProcessesSkipped ==
    /\ YieldedPids(T1.yielded) \subseteq T1.matched \ T1.vanished
    /\ Len(T1.yielded) = Cardinality(YieldedPids(T1.yielded))
    /\ T1.pc = "done" => YieldedPids(T1.yielded) = T1.matched \ T1.vanished

\* C5: no process stops the scan: collect() is never left by an exception,
\* and every listed worker that stays has its record when the cycle ends.
C5_ScanResilient ==
    /\ T1.pc # "raised"
    /\ Finished => T1.matched \ T1.vanished \subseteq YieldedPids(T1.yielded)

\* C6: idempotence.  When a cycle is over and the process table and the
\* counters have not changed since the cycle before it began, every gauge
\* holds what it held when the cycle before was over.
C6_Idempotent ==
    (Finished /\ prevValid /\ ~changedPrev /\ ~changedCur) =>
        gauges = prevGauges

\* two cycles in a row over an unchanged table with a live worker
C6_Witness ==
    /\ T1.pc = "done"
    /\ prevValid
    /\ ~changedPrev
    /\ ~changedCur
    /\ Len(T1.yielded) > 0
    /\ DOMAIN gauges["mem_rss"] # {}

\* the three tests of the heuristic, on a command line
PassesTests(cmdline) ==
    /\ Len(cmdline) > 0
    /\ Len(cmdline[1]) >= Len(PythonPrefix)
    /\ \A i \in 1..Len(PythonPrefix) : cmdline[1][i] = PythonPrefix[i]
    /\ \E i \in 1..Len(cmdline) : Contains(cmdline[i], RunMarker)

\* C7: every record is the record of a process that passes the three
\* tests, and when a cycle is over every series of every gauge is the label
\* mapping of a record of that cycle.
C7_OnlyWorkersPublished ==
    /\ \A i \in 1..Len(T1.yielded) :
        PassesTests(ProcCmdlines[T1.yielded[i].cmd])
    /\ Finished =>
        \A g \in GaugeNames : DOMAIN gauges[g] \subseteq YieldedLabels(T1.yielded)

\* a cycle that listed a worker and a process that fails a test
C7_Witness ==
    /\ T1.pc = "done"
    /\ Len(T1.yielded) > 0
    /\ Range(T1.snap) \ T1.matched # {}
    /\ DOMAIN gauges["mem_rss"] # {}

-----------------------------------------------------------------------------
(* The specification of get_airflow_data alone: a command line is drawn,   *)
(* and the function is applied to it.                                      *)

Pending == [kind |-> "pending"]

FlagLists == {<<>>, <<LocalFlag>>, <<RawFlag>>, <<RawFlag, LocalFlag>>}

\* what follows "airflow run" in an invocation: dag, task, date, flags
Invocations ==
    {<<d, o, dt>> \o fl :
        d \in {D1, MyDag}, o \in {D1T, MyTask},
        dt \in {Date25, Date32, Date19, Date4}, fl \in FlagLists}

Forms == {"title", "argv", "shell", "split", "cut", "empty"}

BuildCmdline(form, inv) ==
    CASE form = "title" ->
            \* the whole invocation is the first token
            <<Join(Space, <<Python3, AirflowBin, Run>> \o inv)>>
      [] form = "argv" ->
            \* the interpreter, then "airflow run ..." as one token
            <<PythonPrefix, Join(Space, <<Airflow, Run>> \o inv)>>
      [] form = "shell" ->
            <<Join(Space, <<Sh, AirflowBin, Run>> \o inv)>>
      [] form = "split" ->
            \* one token per argument: no token holds the marker
            <<Python3, AirflowBin, Run>> \o inv
      [] form = "cut" ->
            \* the invocation stops after the task
            <<Join(Space, <<Python3, AirflowBin, Run, inv[1], inv[2]>>)>>
      [] form = "empty" -> <<>>

ParseCalls ==
    {[fn |-> "get_airflow_data", form |-> f, inv |-> inv,
      arg |-> BuildCmdline(f, inv)] : f \in Forms, inv \in Invocations}

RestInit ==
    /\ procs = [p \in Pids |-> Unborn]
    /\ gauges = [g \in GaugeNames |-> NoSeries]
    /\ global_labels = NoLabels
    /\ thr = [t \in Threads |-> Idle]
    /\ prevGauges = [g \in GaugeNames |-> NoSeries]
    /\ prevYield = <<>>
    /\ prevValid = FALSE
    /\ changedCur = FALSE
    /\ changedPrev = FALSE
    /\ scraped = {}
    /\ collect_time = 0

ParseInit ==
    /\ RestInit
    /\ fin \in ParseCalls
    /\ fout = Pending

ParseCall ==
    /\ fin.fn = "get_airflow_data"
    /\ fout = Pending
    /\ fout' = get_airflow_data(fin.arg)
    /\ UNCHANGED <<progVars, fin>>

ParseNext == ParseCall

ParseSpec == ParseInit /\ [][ParseNext]_vars

\* the sub-tokens of the marker token, as the command line was built
SubTokens(call) ==
    CASE call.form = "title" -> <<Python3, AirflowBin, Run>> \o call.inv
      [] call.form = "argv" -> <<Airflow, Run>> \o call.inv
      [] call.form = "shell" -> <<Sh, AirflowBin, Run>> \o call.inv
      [] call.form = "cut" ->
            <<Python3, AirflowBin, Run, call.inv[1], call.inv[2]>>
      [] OTHER -> <<>>

\* the characters of s from the sixth to the twenty-fifth, as far as s goes
SixthTo25th(s) ==
    IF Len(s) <= 5 THEN <<>>
    ELSE [i \in 1..((IF Len(s) < 25 THEN Len(s) ELSE 25) - 5) |-> s[i + 5]]

HasFlag(subtokens, flag) == \E i \in 1..Len(subtokens) : subtokens[i] = flag

\* the token of the claim, after an interpreter path
ClaimCmdline ==
    <<PythonPrefix,
      <<"a","i","r","f","l","o","w"," ","r","u","n"," ","m","y","_","d","a",
        "g"," ","m","y","_","t","a","s","k"," ","2","0","2","3","-","0","3",
        "-","0","3","T","0","0",":","0","0",":","0","0","+","0","0",":","0",
        "0"," ","-","-","l","o","c","a","l">> >>

\* C3 as stated: dag, operator and exec_date come from the third, fourth
\* and fifth sub-token of the marker token, and the token of the claim gives
\* dag my_dag, operator my_task and a slice of the date.
C3_ThirdFourthFifth ==
    fout.kind = "data" =>
        LET a == SubTokens(fin)
        IN  /\ fout.dag = a[3]
            /\ fout.operator = a[4]
            /\ fout.exec_date = SixthTo25th(a[5])
            /\ fout.is_local = HasFlag(a, LocalFlag)
            /\ fout.is_raw = HasFlag(a, RawFlag)
            /\ fin.arg = ClaimCmdline =>
                /\ fout.dag = MyDag
                /\ fout.operator = MyTask
                /\ fout.exec_date = SixthTo25th(Date25)

\* C3 as the code has it: a process whose first token starts with the
\* interpreter path and whose first marker token has at least six
\* sub-tokens gives dag = the fourth, operator = the fifth, exec_date =
\* characters 5..24 of the sixth, is_local and is_raw by the flags; with
\* fewer than six sub-tokens the subscript raises.  The token of the claim
\* gives dag my_task, operator the date and exec_date "al".
C3_FourthFifthSixth ==
    (fin.fn = "get_airflow_data" /\ fout # Pending) =>
        LET a == SubTokens(fin)
        IN  /\ fin.form \in {"shell", "split", "empty"} => fout = NoData
            /\ (fin.form \in {"title", "argv", "cut"} /\ Len(a) < 6) =>
                    fout = IndexError
            /\ (fin.form \in {"title", "argv", "cut"} /\ Len(a) >= 6) =>
                    fout = [kind      |-> "data",
                            dag       |-> a[4],
                            operator  |-> a[5],
                            exec_date |-> SixthTo25th(a[6]),
                            is_local  |-> HasFlag(a, LocalFlag),
                            is_raw    |-> HasFlag(a, RawFlag)]
            /\ fin.arg = ClaimCmdline =>
                    fout = [kind      |-> "data",
                            dag       |-> MyTask,
                            operator  |-> Date25,
                            exec_date |-> <<"a", "l">>,
                            is_local  |-> TRUE,
                            is_raw    |-> FALSE]

\* the token of the claim has been parsed
C3_Witness ==
    /\ fin.fn = "get_airflow_data"
    /\ fin.arg = ClaimCmdline
    /\ fout.kind = "data"
    /\ fout.is_local

\* C10 as stated: every extracted exec_date has 20 characters.
C10_AlwaysTwenty ==
    fout.kind = "data" => Len(fout.exec_date) = 20

\* C10 as the code has it: exec_date has the characters of the sixth
\* sub-token after its first five, and at most 20 of them: 20 when that
\* sub-token has 25 characters or more, and its length less 5 (or none)
\* when it is shorter.
C10_AtMostTwenty ==
    fout.kind = "data" =>
        LET n == Len(SubTokens(fin)[6])
        IN  /\ n >= 25 => Len(fout.exec_date) = 20
            /\ (5 <= n /\ n < 25) => Len(fout.exec_date) = n - 5
            /\ n < 5 => Len(fout.exec_date) = 0

\* a date sub-token longer than 25 characters has been cut to 20
C10_Witness ==
    /\ fin.fn = "get_airflow_data"
    /\ fin.form = "title"
    /\ fin.inv[3] = Date32
    /\ fout.kind = "data"
    /\ Len(fout.exec_date) = 20

-----------------------------------------------------------------------------
(* The specification of _get_process_name alone.                           *)

EtlPipeline == <<"e","t","l","_","p","i","p","e","l","i","n","e">>

EtlPipelineExtract ==
    <<"e","t","l","_","p","i","p","e","l","i","n","e","_","e","x","t","r",
      "a","c","t">>

Reporting == <<"r","e","p","o","r","t","i","n","g">>

SendEmail == <<"s","e","n","d","_","e","m","a","i","l">>

Jan1 == <<"2","0","2","3","-","0","1","-","0","1","T","0","0",":","0","0",
          ":","0","0">>

Feb2 == <<"2","0","2","3","-","0","2","-","0","2","T","0","0",":","0","0",
          ":","0","0">>

NameCalls ==
    {[fn |-> "_get_process_name",
      metrics |-> [dag |-> d, operator |-> o, exec_date |-> e,
                   is_local |-> l, is_raw |-> r]] :
        d \in {EtlPipeline, Reporting, D1},
        o \in {EtlPipelineExtract, SendEmail, D1T, D1},
        e \in {Jan1, Feb2, SixthTo25th(Date25)},
        l \in BOOLEAN, r \in BOOLEAN}

NameInit ==
    /\ RestInit
    /\ fin \in NameCalls
    /\ fout = Pending

NameCall ==
    /\ fin.fn = "_get_process_name"
    /\ fout = Pending
    /\ fout' = [kind |-> "name", name |-> get_process_name(fin.metrics)]
    /\ UNCHANGED <<progVars, fin>>

NameNext == NameCall

NameSpec == NameInit /\ [][NameNext]_vars

\* small occurs in big at some offset
OccursIn(small, big) ==
    \E off \in 0..Len(big) :
        /\ off + Len(small) <= Len(big)
        /\ \A k \in 1..Len(small) : big[off + k] = small[k]

\* C8: the name is the operator (when dag occurs in it) or dag.operator,
\* then _exec_date, then _local if is_local, then _is_raw if is_raw; the two
\* examples of the specification come out as written there.
C8_NameDerivation ==
    fout.kind = "name" =>
        LET m == fin.metrics
            base == IF OccursIn(m.dag, m.operator) THEN m.operator
                    ELSE m.dag \o <<".">> \o m.operator
            local == IF m.is_local THEN <<"_","l","o","c","a","l">> ELSE <<>>
            raw == IF m.is_raw THEN <<"_","i","s","_","r","a","w">> ELSE <<>>
        IN  /\ fout.name = base \o <<"_">> \o m.exec_date \o local \o raw
            /\ (m = [dag |-> EtlPipeline, operator |-> EtlPipelineExtract,
                     exec_date |-> Jan1, is_local |-> FALSE,
                     is_raw |-> FALSE]) =>
                fout.name =
                    <<"e","t","l","_","p","i","p","e","l","i","n","e","_",
                      "e","x","t","r","a","c","t","_","2","0","2","3","-",
                      "0","1","-","0","1","T","0","0",":","0","0",":","0",
                      "0">>
            /\ (m = [dag |-> Reporting, operator |-> SendEmail,
                     exec_date |-> Feb2, is_local |-> TRUE,
                     is_raw |-> FALSE]) =>
                fout.name =
                    <<"r","e","p","o","r","t","i","n","g",".","s","e","n",
                      "d","_","e","m","a","i","l","_","2","0","2","3","-",
                      "0","2","-","0","2","T","0","0",":","0","0",":","0",
                      "0","_","l","o","c","a","l">>

\* the second example has been named, and a record with both flags too
C8_Witness ==
    /\ fout.kind = "name"
    /\ fin.metrics.dag = Reporting
    /\ fin.metrics.operator = SendEmail
    /\ fin.metrics.exec_date = Feb2
    /\ fin.metrics.is_local
    /\ ~fin.metrics.is_raw

-----------------------------------------------------------------------------
(* The specification of a cycle under a reader: the process table is any   *)
(* table and does not change; collect() runs statement by statement, and   *)
(* a scrape can read the registry between any two of them.                 *)

Tables ==
    [Pids -> {Unborn} \cup
             {[st |-> "alive", cmd |-> c, load |-> 0] : c \in CmdIds}]

ScrapeInit ==
    /\ procs \in Tables
    /\ gauges = [g \in GaugeNames |-> NoSeries]
    /\ global_labels \in GlobalLabelChoices
    /\ thr = [t \in Threads |-> Idle]
    /\ prevGauges = [g \in GaugeNames |-> NoSeries]
    /\ prevYield = <<>>
    /\ prevValid = FALSE
    /\ changedCur = FALSE
    /\ changedPrev = FALSE
    /\ scraped = {}
    /\ collect_time = 0
    /\ fin = NoCall
    /\ fout = NoCall

ScrapeNext ==
    \/ collect(1)
    \/ reset_statement(1)
    \/ Scan(1)
    \/ handle_statement(1)
    \/ Scrape

ScrapeSpec == ScrapeInit /\ [][ScrapeNext]_vars

\* the label mappings of the records collect() has handled to the end
HandledLabels ==
    {LabelsOf(T1.yielded[i].metrics) : i \in 1..T1.handled}

\* C9: nothing hides the steps of collect().  While _reset runs, the gauges
\* it has reached are empty and the others still hold the series of the cycle
\* before; from then on a gauge holds the series of the records handled so
\* far, and that of the record being handled once its statement has run.  So
\* under an unchanged table with a worker, a read finds the gauges mixed
\* while _reset or a handling is under way, empty before the first record,
\* and partial between two records.
C9_StepsVisible ==
    LET view == View
        live == LiveLabels
        done == HandledLabels
    IN
    /\ T1.pc = "reset" =>
        \A k \in 1..Len(ResetOrder) :
            gauges[ResetOrder[k]] =
                IF k < T1.ri THEN NoSeries ELSE prevGauges[ResetOrder[k]]
    /\ T1.pc \notin {"idle", "reset"} =>
        \A k \in 1..Len(HandleOrder) :
            Series(HandleOrder[k]) =
                done \cup
                    (IF T1.pc = "handle" /\ k < T1.wi
                     THEN {T1.labels} ELSE {})
    /\ (/\ T1.pc = "reset"
        /\ T1.ri > 1
        /\ \A g \in Written : DOMAIN prevGauges[g] # {}) => view = "mixed"
    /\ (/\ T1.pc = "iter" \/ Fetching(T1)
        /\ T1.handled = 0
        /\ live # {}) => view = "empty"
    /\ (/\ T1.pc = "handle"
        /\ T1.wi > 1
        /\ T1.labels \notin done) => view = "mixed"
    /\ (/\ Fetching(T1)
        /\ T1.handled > 0
        /\ done # live) => view = "partial"

\* within one cycle over an unchanged table, whose gauges were complete
\* when it began, scrapes have found them mixed, empty and partial
C9_Witness ==
    /\ ~Returned(T1)
    /\ prevValid
    /\ ~changedPrev
    /\ ~changedCur
    /\ \A g \in Written : DOMAIN prevGauges[g] = LiveLabels
    /\ {"mixed", "empty", "partial"} \subseteq scraped

-----------------------------------------------------------------------------
(* Properties of the label mapping.                                        *)

BaseLabelNames == {"name", "dag", "operator", "exec_date"}

\* C11: the label keys are fixed and the same for every gauge.  The mapping
\* a record is written under, and every series of every gauge, has exactly
\* the keys name, dag, operator, exec_date and the keys of the configured
\* extra labels; the extra keys carry the configured values, and name, dag,
\* operator and exec_date carry the values derived from a record (the one
\* being handled, or for a series one of this cycle or of the cycle before).
C11_LabelKeysFixed ==
    LET WrittenFor(l, m) ==
            /\ DOMAIN l = BaseLabelNames \cup DOMAIN global_labels
            /\ DOMAIN l = LabelNames
            /\ \A k \in DOMAIN global_labels : l[k] = global_labels[k]
            /\ l.name = get_process_name(m)
            /\ l.dag = m.dag
            /\ l.operator = m.operator
            /\ l.exec_date = m.exec_date
        records == {T1.yielded[i].metrics : i \in 1..Len(T1.yielded)}
                       \cup {prevYield[i].metrics : i \in 1..Len(prevYield)}
    IN  /\ T1.pc = "handle" => WrittenFor(T1.labels, T1.rec)
        /\ \A g \in GaugeNames : \A l \in DOMAIN gauges[g] :
                \E m \in records : WrittenFor(l, m)

\* a container with an extra label is part-way through the writes of a
\* record: some gauges hold its mapping, with the extra key, others not yet
C11_Witness ==
    /\ DOMAIN global_labels # {}
    /\ T1.pc = "handle"
    /\ T1.wi > 1
    /\ T1.wi <= Len(HandleOrder)
    /\ T1.labels \in DOMAIN gauges[HandleOrder[1]]
    /\ T1.labels.env = global_labels.env
    /\ T1.labels \notin DOMAIN gauges[HandleOrder[Len(HandleOrder)]]

-----------------------------------------------------------------------------
(* Properties of the timing summary.                                       *)

\* the threads that are inside collect()
Running == {t \in Threads : ~Returned(thr[t])}

\* C12: one observation per call of collect().  At every point the summary
\* holds one observation for each call that has returned or raised, whatever
\* the number of records it handled, and none for a call that is still
\* running: the timer of a call runs from before the first statement of
\* _reset until the call is left, so the observation is made after the last
\* write and covers the clearing and the repopulation.
C12_OneObservationPerCall ==
    /\ collect_time + Cardinality(Running) = CallsOf(Threads)
    /\ \A t \in Threads :
        /\ thr[t].pc = "idle" => thr[t].timer = "none" /\ thr[t].calls = 0
        /\ t \in Running => thr[t].timer = "running"
        /\ thr[t].pc \in {"done", "raised"} => thr[t].timer = "observed"

\* the second call has returned after listing processes and handling no
\* record, and the summary holds two observations
C12_Witness ==
    /\ T1.pc = "done"
    /\ T1.handled = 0
    /\ Range(T1.snap) # {}
    /\ T1.calls = 2
    /\ collect_time = 2

-----------------------------------------------------------------------------
(* The specification of get_airflow_data on command lines with two marker  *)
(* tokens.                                                                 *)

\* the sub-tokens of a marker token: "airflow run ..." with and without the
\* interpreter and the path before it, and the bare marker
MarkerSubTokens ==
    {<<Airflow, Run>>}
        \cup {<<Airflow, Run>> \o <<d, o, dt>> \o fl :
                d \in {D1, MyDag}, o \in {D1T, MyTask}, dt \in {Date25, Date4},
                fl \in {<<>>, <<LocalFlag>>, <<RawFlag>>}}
        \cup {<<Python3, AirflowBin, Run>> \o <<d, o, dt>> \o fl :
                d \in {D1, MyDag}, o \in {D1T, MyTask}, dt \in {Date25, Date4},
                fl \in {<<>>, <<LocalFlag>>}}

Layouts == {"adjacent", "apart", "late"}

\* a command line whose marker tokens are Join(first) and Join(second)
TwoMarkerCmdline(layout, first, second) ==
    CASE layout = "adjacent" ->
            <<Python3, Join(Space, first), Join(Space, second)>>
      [] layout = "apart" ->
            <<Python3, Join(Space, first), Script, Join(Space, second)>>
      [] layout = "late" ->
            <<Python3, Script, AirflowBin, Join(Space, first),
              Join(Space, second)>>

MarkerCalls ==
    {[fn |-> "get_airflow_data", layout |-> l, first |-> a, second |-> b,
      arg |-> TwoMarkerCmdline(l, a, b)] :
        l \in Layouts, a \in MarkerSubTokens, b \in MarkerSubTokens}

MarkerInit ==
    /\ RestInit
    /\ fin \in MarkerCalls
    /\ fout = Pending

MarkerSpec == MarkerInit /\ [][ParseNext]_vars

\* what the sub-tokens of one marker token give
FieldsOf(a) ==
    IF Len(a) < 6 THEN IndexError
    ELSE [kind      |-> "data",
          dag       |-> a[4],
          operator  |-> a[5],
          exec_date |-> SixthTo25th(a[6]),
          is_local  |-> HasFlag(a, LocalFlag),
          is_raw    |-> HasFlag(a, RawFlag)]

\* C13: of two tokens that contain the marker, the first in argument order
\* decides.  The result is what the first marker token gives (its fields,
\* or the IndexError of its missing sub-tokens), whatever the second is and
\* wherever the two stand after the interpreter.
C13_FirstMarkerToken ==
    (fin.fn = "get_airflow_data" /\ fout # Pending) =>
        /\ fout = FieldsOf(fin.first)
        /\ fout # NoData

\* the two marker tokens give different fields, the second is not next to
\* the first, and the result has the fields of the first
C13_Witness ==
    /\ fin.fn = "get_airflow_data"
    /\ fout.kind = "data"
    /\ fin.layout = "apart"
    /\ FieldsOf(fin.second).kind = "data"
    /\ FieldsOf(fin.second).dag # fout.dag
    /\ FieldsOf(fin.second).operator # fout.operator
    /\ FieldsOf(fin.second).exec_date # fout.exec_date
    /\ FieldsOf(fin.second).is_local # fout.is_local
    /\ fout.dag = fin.first[4]

-----------------------------------------------------------------------------
(* The specification of cycles over workers that share an identity or       *)
(* differ in their flags alone.  The table is any table of such processes  *)
(* and does not change.                                                    *)

IdentityTables ==
    [Pids -> {Unborn} \cup
             {[st |-> "alive", cmd |-> c, load |-> 0] : c \in FlagCmdIds}]

IdentityInit ==
    /\ procs \in IdentityTables
    /\ gauges = [g \in GaugeNames |-> NoSeries]
    /\ global_labels \in GlobalLabelChoices
    /\ thr = [t \in Threads |-> Idle]
    /\ prevGauges = [g \in GaugeNames |-> NoSeries]
    /\ prevYield = <<>>
    /\ prevValid = FALSE
    /\ changedCur = FALSE
    /\ changedPrev = FALSE
    /\ scraped = {}
    /\ collect_time = 0
    /\ fin = NoCall
    /\ fout = NoCall

IdentityNext ==
    \/ collect(1)
    \/ reset(1)
    \/ Scan(1)
    \/ handle_process_metrics(1)

IdentitySpec == IdentityInit /\ [][IdentityNext]_vars

\* the identity of a record
Identity(m) == <<m.dag, m.operator, m.exec_date, m.is_local, m.is_raw>>

\* C14: label mappings and identities correspond one to one.  When
\* collect() has returned, each gauge it writes holds exactly the label
\* mappings of the records of the cycle; two records of the cycle have the
\* same mapping exactly when they have the same dag, operator, exec_date,
\* is_local and is_raw; and the value under a mapping is the field of the
\* last record of the cycle with that mapping.
C14_LabelsMatchIdentities ==
    T1.pc = "done" =>
        LET n == Len(T1.yielded)
            rec(i) == T1.yielded[i].metrics
        IN  /\ \A i, j \in 1..n :
                (LabelsOf(rec(i)) = LabelsOf(rec(j)))
                    <=> (Identity(rec(i)) = Identity(rec(j)))
            /\ \A g \in Written :
                /\ DOMAIN gauges[g] = {LabelsOf(rec(i)) : i \in 1..n}
                /\ Cardinality(DOMAIN gauges[g])
                       = Cardinality({Identity(rec(i)) : i \in 1..n})
                /\ \A i \in 1..n :
                    (\A j \in (i + 1)..n : Identity(rec(j)) # Identity(rec(i)))
                        => gauges[g][LabelsOf(rec(i))] = rec(i)[g]

\* a cycle has returned with two records of one identity: one series holds
\* the counters of the second and not those of the first
C14_Witness ==
    /\ T1.pc = "done"
    /\ Len(T1.yielded) = 2
    /\ Identity(T1.yielded[1].metrics) = Identity(T1.yielded[2].metrics)
    /\ T1.yielded[1].metrics.mem_rss # T1.yielded[2].metrics.mem_rss
    /\ Cardinality(DOMAIN gauges["mem_rss"]) = 1
    /\ gauges["mem_rss"][LabelsOf(T1.yielded[2].metrics)]
           = T1.yielded[2].metrics.mem_rss

\* a cycle has returned with two records that differ in is_local alone, and
\* each has a series of its own
FlagsKeepSeriesApart ==
    /\ T1.pc = "done"
    /\ Len(T1.yielded) = 2
    /\ T1.yielded[1].metrics.dag = T1.yielded[2].metrics.dag
    /\ T1.yielded[1].metrics.operator = T1.yielded[2].metrics.operator
    /\ T1.yielded[1].metrics.exec_date = T1.yielded[2].metrics.exec_date
    /\ T1.yielded[1].metrics.is_raw = T1.yielded[2].metrics.is_raw
    /\ T1.yielded[1].metrics.is_local # T1.yielded[2].metrics.is_local
    /\ Cardinality(DOMAIN gauges["mem_rss"]) = 2

-----------------------------------------------------------------------------
(* Properties of a cycle that the scan leaves by an exception.             *)

\* the gauges _reset clears
Cleared == {ResetOrder[i] : i \in 1..Len(ResetOrder)}

\* the place in the listing of the process of record i of the cycle
PlaceOf(i) ==
    CHOOSE k \in 1..Len(T1.snap) : T1.snap[k] = T1.yielded[i].pid

\* C15: a cycle that the scan leaves by an exception has cleared and not
\* restored.  The exception is the IndexError of the process the loop had
\* reached; the records of the cycle are records of processes listed before
\* that one, in the order of the listing; every cleared gauge holds exactly
\* their label mappings with their values, so a mapping of the cycle before
\* is there only if a record of this cycle has it; and no process listed
\* after the failing one has a record.
C15_AbortLeavesPrefix ==
    T1.pc = "raised" =>
        LET n == Len(T1.yielded)
            rec(i) == T1.yielded[i].metrics
        IN  /\ T1.pos \in 1..Len(T1.snap)
            /\ Alive(T1.snap[T1.pos]) =>
                    get_airflow_data(Cmdline(T1.snap[T1.pos])) = IndexError
            /\ T1.handled = n
            /\ \A i \in 1..n :
                /\ T1.yielded[i].pid \in {T1.snap[k] : k \in 1..(T1.pos - 1)}
                /\ \A j \in (i + 1)..n : PlaceOf(i) < PlaceOf(j)
            /\ \A k \in T1.pos..Len(T1.snap) :
                    T1.snap[k] \notin YieldedPids(T1.yielded)
            /\ \A g \in Cleared :
                /\ DOMAIN gauges[g] = {LabelsOf(rec(i)) : i \in 1..n}
                /\ \A l \in DOMAIN prevGauges[g] :
                        l \in DOMAIN gauges[g] => l \in YieldedLabels(T1.yielded)
                /\ \A i \in 1..n :
                    (\A j \in (i + 1)..n : LabelsOf(rec(j)) # LabelsOf(rec(i)))
                        => gauges[g][LabelsOf(rec(i))] = rec(i)[g]

\* the scan raised on its first process: the series of the cycle before are
\* gone, and a worker listed after the failing process, still alive, has
\* none
C15_Witness ==
    /\ T1.pc = "raised"
    /\ T1.pos = 1
    /\ Len(T1.snap) = 2
    /\ Alive(T1.snap[2])
    /\ T1.snap[2] \in T1.matched
    /\ DOMAIN prevGauges["mem_rss"] # {}
    /\ \A g \in Cleared : DOMAIN gauges[g] = {}

\* the scan raised on its second process, after the record of the first:
\* the gauges hold the series of that record alone
RaisedAfterARecord ==
    /\ T1.pc = "raised"
    /\ T1.pos = 2
    /\ Len(T1.yielded) = 1
    /\ T1.yielded[1].pid = T1.snap[1]
    /\ \A g \in Cleared :
            DOMAIN gauges[g] = {LabelsOf(T1.yielded[1].metrics)}

-----------------------------------------------------------------------------
(* The specification of overlapping cycles: two callers, each in collect() *)
(* statement by statement, over a table of at most one worker among other  *)
(* processes; the worker can exit while both are inside collect().         *)

\* the first worker and the python process that is no worker
OverlapCmdIds == {1, 4}

\* the command lines get_airflow_data returns a dict for
WorkerCmdIds ==
    {c \in DOMAIN AllCmdlines : AirflowDataOf[c].kind = "data"}

OverlapTables ==
    {tb \in [Pids -> {Unborn} \cup
                     {[st |-> "alive", cmd |-> c, load |-> 0] :
                         c \in OverlapCmdIds}] :
        Cardinality({p \in Pids : tb[p].cmd = 1}) <= 1}

OverlapInit ==
    /\ procs \in OverlapTables
    /\ gauges = [g \in GaugeNames |-> NoSeries]
    /\ global_labels = NoLabels
    /\ thr = [t \in Threads |-> Idle]
    /\ prevGauges = [g \in GaugeNames |-> NoSeries]
    /\ prevYield = <<>>
    /\ prevValid = FALSE
    /\ changedCur = FALSE
    /\ changedPrev = FALSE
    /\ scraped = {}
    /\ collect_time = 0
    /\ fin = NoCall
    /\ fout = NoCall

\* a worker exits while both callers are inside collect()
ExitDuringOverlap(p) ==
    /\ \A t \in Threads : ~Returned(thr[t])
    /\ procs[p].cmd \in WorkerCmdIds
    /\ Exit(p)

OverlapNext ==
    \/ \E t \in Threads : collect_concurrently(t)
    \/ \E t \in Threads : reset_statement(t)
    \/ \E t \in Threads : Scan(t)
    \/ \E t \in Threads : handle_statement(t)
    \/ \E p \in Pids : ExitDuringOverlap(p)

OverlapSpec == OverlapInit /\ [][OverlapNext]_vars

\* the record a scan of process p yields
RecordOf(p) ==
    ProcessMetrics(get_airflow_data(Cmdline(p)), memory_full_info(p),
                   cpu_times(p), cpu_percent(p))

\* the places of the listing before the first process the scan raises on
BeforeFailure(listing) ==
    {k \in 1..Len(listing) :
        \A j \in 1..k : get_airflow_data(Cmdline(listing[j])) # IndexError}

\* what one collect() alone leaves in the gauges, over the table as it is:
\* each written gauge holds, under the label mapping of every worker listed
\* before the first failure, the field of the last such worker with that
\* mapping; the gauge that is never written is as it was
SingleCollect ==
    LET listing == process_iter
        places == {k \in BeforeFailure(listing) : listing[k] \in Matched}
        labelsAt(k) == LabelsOf(RecordOf(listing[k]))
        lastWith(l) == CHOOSE k \in places :
                          /\ labelsAt(k) = l
                          /\ \A j \in places : labelsAt(j) = l => j <= k
    IN  [g \in GaugeNames |->
            IF g \in Written
            THEN [l \in {labelsAt(k) : k \in places} |->
                     RecordOf(listing[lastWith(l)])[g]]
            ELSE gauges[g]]

NoExit == \A p \in Pids : procs[p].st # "dead"

BothReturned == \A t \in Threads : thr[t].pc \in {"done", "raised"}

\* C16: overlapping cycles over an unchanged table end as one cycle would.
\* When both callers have been in collect() and have left it, and no
\* process has exited, the gauges hold what a single collect() leaves,
\* however the statements of the two calls were interleaved.  (When a
\* worker exits while both are inside, its series can outlast both calls:
\* C16_Witness.)
C16_OverlapEndsAsSingle ==
    (BothReturned /\ NoExit) => gauges = SingleCollect

\* a worker exited while both callers were inside collect(); both have
\* left, one of them listed the processes after the exit, and the gauges
\* still hold the series of the worker that is gone
C16_Witness ==
    /\ BothReturned
    /\ \E p \in Pids :
        /\ procs[p].st = "dead"
        /\ \E t \in Threads : p \notin Range(thr[t].snap)
        /\ \E t \in Threads : \E i \in 1..Len(thr[t].yielded) :
            /\ thr[t].yielded[i].pid = p
            /\ \A g \in Written :
                LabelsOf(thr[t].yielded[i].metrics) \in DOMAIN gauges[g]
            /\ \A u \in Threads : \A j \in 1..Len(thr[u].yielded) :
                thr[u].yielded[j].pid # p =>
                    LabelsOf(thr[u].yielded[j].metrics)
                        # LabelsOf(thr[t].yielded[i].metrics)

\* both callers have left collect() over an unchanged table with a worker,
\* and the gauges have come out whole
OverlapWithoutExit ==
    /\ BothReturned
    /\ NoExit
    /\ \A t \in Threads : Len(thr[t].yielded) = 1
    /\ \A g \in Written : Cardinality(DOMAIN gauges[g]) = 1

====
